---------------------------- MODULE Spec2Model ----------------------------
(***************************************************************************)
(* A model of the crate unordered-n-tuple (src/src/lib.rs):                *)
(* UnorderedNTuple<T, N>, its multiset equality (PartialEq::eq), its       *)
(* order-independent hash (Hash::hash) and its serde codec                 *)
(* (Serialize::serialize, UnorderedNTupleVisitor::visit_seq).              *)
(*                                                                         *)
(* A tuple UnorderedNTuple([T; N]) is a sequence of length N over Elems.   *)
(* Option<usize> is a sequence of length at most one: <<>> is None and     *)
(* <<n>> is Some(n).                                                       *)
(***************************************************************************)
EXTENDS Naturals, Sequences, FiniteSets

\* Largest arity N the model instantiates (N ranges over 0..MaxN).
MaxN == 3
\* Elements of T are the integers 0..MaxElem (T = usize in the tests).
MaxElem == 2
\* Longest input sequence handed to the deserializer.
MaxLen == 4

Elems == 0..MaxElem
Arities == 0..MaxN

\* All values of [T; N].
Tuples(n) == [1..n -> Elems]

VARIABLES
    N,              \* the const generic N of the instantiation
    pc,             \* position of the running operation
    pa,             \* left-hand tuple (self), and the tuple that is serialized
    pb,             \* right-hand tuple (other)
    used_indices,   \* eq: the marker array [bool; N]
    claimed,        \* eq: claimed[k] is the slot of other that left element k marked
    examined,       \* eq: number of left elements the outer loop has taken
    eq_result,      \* eq: the returned bool, as <<>> until eq returns
    hasher_a,       \* the values fed to the Hasher by pa.hash(state)
    hasher_b,       \* the values fed to the Hasher by pb.hash(state)
    seq,            \* the sequence the Serializer was asked to emit
    access,         \* the SeqAccess handed to visit_seq
    outcome         \* what deserialization returned

vars == <<N, pc, pa, pb, used_indices, claimed, examined, eq_result,
          hasher_a, hasher_b, seq, access, outcome>>

eqVars == <<used_indices, claimed, examined, eq_result>>
hashVars == <<hasher_a, hasher_b>>
serdeVars == <<seq, access, outcome>>

None == <<>>
Some(x) == <<x>>

-----------------------------------------------------------------------------
(* impl From<[T; N]> for UnorderedNTuple / From<UnorderedNTuple> for [T; N] *)

\* UnorderedNTuple::from(arg: [T; N]): wraps the array verbatim.
from_array(arg) == arg

\* <[T; N]>::from(arg: UnorderedNTuple): unwraps the array verbatim.
into_array(arg) == arg

-----------------------------------------------------------------------------
(* impl PartialEq for UnorderedNTuple: fn eq(&self, other) -> bool *)

\* [false; N]
NoneUsed(n) == [k \in 1..n |-> FALSE]

\* The inner loop without the test of used_indices[index].
RECURSIVE FirstUnusedEqual_ignoring_used(_, _, _, _)
FirstUnusedEqual_ignoring_used(element, other, used, index) ==
    IF index > Len(other) THEN 0
    ELSE IF element = other[index] THEN index
    ELSE FirstUnusedEqual_ignoring_used(element, other, used, index + 1)

\* The inner loop breaking at the first unused slot, equal or not.
FirstUnusedEqual_stop_at_first_unused(element, other, used, index) ==
    LET free == {k \in index..Len(other) : ~used[k]}
        first == IF free = {} THEN 0
                 ELSE CHOOSE k \in free : \A m \in free : k <= m
    IN  IF first # 0 /\ element = other[first] THEN first ELSE 0

\* The inner loop running to the end, keeping the last unused equal slot.
FirstUnusedEqual_last(element, other, used, index) ==
    LET hits == {k \in index..Len(other) : ~used[k] /\ element = other[k]}
    IN  IF hits = {} THEN 0 ELSE CHOOSE k \in hits : \A m \in hits : k >= m

\* The inner loop: for (index, other_element) in other.0.iter().enumerate(),
\* skipping used indices, stopping at the first element equal to `element`.
\* The result is the index found (1-based), or 0 when found stays false.
RECURSIVE FirstUnusedEqual(_, _, _, _)
FirstUnusedEqual(element, other, used, index) ==
    IF index > Len(other) THEN 0
    ELSE IF used[index] THEN FirstUnusedEqual(element, other, used, index + 1)
    ELSE IF element = other[index] THEN index
    ELSE FirstUnusedEqual(element, other, used, index + 1)

\* used_indices[index] = true
MarkUsed(used, index) == [used EXCEPT ![index] = TRUE]

\* The outer loop from the i-th element of self on, with the markers so far.
RECURSIVE eq_from(_, _, _, _)
eq_from(self, other, i, used) ==
    IF i > Len(self) THEN TRUE
    ELSE LET index == FirstUnusedEqual(self[i], other, used, 1)
         IN  IF index = 0 THEN FALSE
             ELSE eq_from(self, other, i + 1, MarkUsed(used, index))

\* self == other
eq(self, other) == eq_from(self, other, 1, NoneUsed(Len(other)))

-----------------------------------------------------------------------------
(* impl Hash for UnorderedNTuple: fn hash<H: Hasher>(&self, state: &mut H) *)

\* Insert x into the sorted sequence s, after the elements not above it.
RECURSIVE Insert(_, _)
Insert(s, x) ==
    IF s = <<>> THEN <<x>>
    ELSE IF x < Head(s) THEN <<x>> \o s
    ELSE <<Head(s)>> \o Insert(Tail(s), x)

\* sorted.sort(): the slice in ascending order of T's Ord.
RECURSIVE sort(_)
sort(s) == IF s = <<>> THEN <<>> ELSE Insert(sort(SubSeq(s, 1, Len(s) - 1)), s[Len(s)])

\* Hash::hash_slice(&sorted, state): every element is fed to the hasher in
\* slice order. A hasher state is the sequence of values fed so far.
hash_slice(data, state) == state \o data

\* hash without the sort: the storage order is fed to the hasher.
hash_unsorted(self, state) == hash_slice(self, state)

\* let mut sorted = self.0.clone(); sorted.sort(); Hash::hash_slice(&sorted, state)
hash(self, state) ==
    LET sorted == sort(self)
    IN  hash_slice(sorted, state)

-----------------------------------------------------------------------------
(* impl Serialize for UnorderedNTuple: fn serialize<S: Serializer> *)

\* A sequence as the Serializer sees it: the declared length (Option<usize>),
\* the elements written so far, and whether end() was called.
NoSeq == [len |-> None, elements |-> <<>>, ended |-> FALSE]

\* serialize_seq(None): a sequence that declares no length.
serialize_seq_undeclared(len) == [len |-> None, elements |-> <<>>, ended |-> FALSE]

\* serializer.serialize_seq(len)
serialize_seq(len) == [len |-> len, elements |-> <<>>, ended |-> FALSE]

\* seq.serialize_element(item)
serialize_element(s, item) == [s EXCEPT !.elements = Append(@, item)]

\* seq.end()
end(s) == [s EXCEPT !.ended = TRUE]

-----------------------------------------------------------------------------
(* UnorderedNTupleVisitor::visit_seq and Deserialize::deserialize *)

\* A token of the input sequence: <<v>> decodes to the element v, <<>> is a
\* token that does not decode as T.
Token(v) == <<v>>
Undecodable == <<>>
Tokens == {Token(v) : v \in Elems} \cup {Undecodable}

\* A SeqAccess: what size_hint() answers and the tokens next_element() reads.
NoAccess == [size_hint |-> None, tokens |-> <<>>]

\* Errors. S::Error::custom(msg) is built by this crate; an element error is
\* built by the underlying decoder and names the element it failed on.
NoError == [msg |-> "", at |-> 0]
custom(msg) == [msg |-> msg, at |-> 0]
element_error(k) == [msg |-> "invalid element", at |-> k]

\* access.next_element(), the k-th call: Ok(Some(v)), Ok(None) at the end of
\* the sequence, or Err(e) on a token that does not decode.
next_element(acc, k) ==
    IF k > Len(acc.tokens) THEN [kind |-> "none", value |-> 0, error |-> NoError]
    ELSE IF acc.tokens[k] = Undecodable
         THEN [kind |-> "err", value |-> 0, error |-> element_error(k)]
         ELSE [kind |-> "some", value |-> acc.tokens[k][1], error |-> NoError]

\* What deserialization returned: Ok(tuple), Err(error), or a panic; calls
\* counts the calls of next_element.
Pending == [kind |-> "pending", value |-> <<>>, error |-> NoError, calls |-> 0]
Ok(tuple, calls) == [kind |-> "ok", value |-> tuple, error |-> NoError, calls |-> calls]
Err(e, calls) == [kind |-> "err", value |-> <<>>, error |-> e, calls |-> calls]
Panic(calls) == [kind |-> "panic", value |-> <<>>, error |-> NoError, calls |-> calls]

\* The loop replacing an element error by this crate's own error.
RECURSIVE visit_loop_wrapping(_, _, _)
visit_loop_wrapping(acc, n, data) ==
    IF Len(data) = n THEN Ok(data, n)
    ELSE LET k == Len(data) + 1
             r == next_element(acc, k)
         IN  CASE r.kind = "err"  -> Err(custom("Wrong number of elements"), k)
               [] r.kind = "none" -> Panic(k)
               [] r.kind = "some" -> visit_loop_wrapping(acc, n, Append(data, r.value))

\* for _ in 0..N { data.push(access.next_element()?.unwrap()) }
\* Ok(UnorderedNTuple(data.try_into()...))
RECURSIVE visit_loop(_, _, _)
visit_loop(acc, n, data) ==
    IF Len(data) = n THEN Ok(data, n)
    ELSE LET k == Len(data) + 1
             r == next_element(acc, k)
         IN  CASE r.kind = "err"  -> Err(r.error, k)
               [] r.kind = "none" -> Panic(k)
               [] r.kind = "some" -> visit_loop(acc, n, Append(data, r.value))

\* visit_seq without the size_hint test.
visit_seq_unchecked(acc, n) == visit_loop(acc, n, <<>>)

\* fn visit_seq(self, mut access: S) -> Result<Self::Value, S::Error>
visit_seq(acc, n) ==
    IF acc.size_hint # Some(n)
    THEN Err(custom("Wrong number of elements"), 0)
    ELSE visit_loop(acc, n, <<>>)

\* deserializer.deserialize_seq(visitor): the deserializer reads the sequence
\* the serializer emitted and hands the visitor a SeqAccess over it, with the
\* declared length as its size hint (serde_test's Token::Seq { len }).
deserialize_seq(s) ==
    [size_hint |-> s.len, tokens |-> [k \in 1..Len(s.elements) |-> Token(s.elements[k])]]

-----------------------------------------------------------------------------
(* Comparing and hashing two tuples: pa == pb, then pa.hash(..), pb.hash(..) *)
(* (the shape of tests::check_pair_hashing and tests::check_triple_hashing). *)

\* The serde state of a run that does not serialize.
SerdeIdle == seq = NoSeq /\ access = NoAccess /\ outcome = Pending

Init ==
    /\ N \in Arities
    /\ \E x \in Tuples(N) : pa = from_array(x)
    /\ \E y \in Tuples(N) : pb = from_array(y)
    /\ pc = "eq"
    /\ used_indices = NoneUsed(N)
    /\ claimed = <<>>
    /\ examined = 0
    /\ eq_result = None
    /\ hasher_a = <<>>
    /\ hasher_b = <<>>
    /\ SerdeIdle

\* One pass of the outer loop in which the inner loop finds an unused equal
\* slot of other: the slot is marked and the loop goes on.
EqElementFound ==
    /\ pc = "eq"
    /\ examined < N
    /\ LET element == pa[examined + 1]
           index == FirstUnusedEqual(element, pb, used_indices, 1)
       IN  /\ index # 0
           /\ used_indices' = MarkUsed(used_indices, index)
           /\ claimed' = Append(claimed, index)
    /\ examined' = examined + 1
    /\ UNCHANGED <<N, pc, pa, pb, eq_result, hashVars, serdeVars>>

\* The pass with found still false returning true instead of false.
EqElementNotFound_returns_true ==
    /\ pc = "eq"
    /\ examined < N
    /\ FirstUnusedEqual(pa[examined + 1], pb, used_indices, 1) = 0
    /\ examined' = examined + 1
    /\ eq_result' = Some(TRUE)
    /\ pc' = "eq_returned"
    /\ UNCHANGED <<N, pa, pb, used_indices, claimed, hashVars, serdeVars>>

\* One pass of the outer loop in which found stays false: return false.
EqElementNotFound ==
    /\ pc = "eq"
    /\ examined < N
    /\ FirstUnusedEqual(pa[examined + 1], pb, used_indices, 1) = 0
    /\ examined' = examined + 1
    /\ eq_result' = Some(FALSE)
    /\ pc' = "eq_returned"
    /\ UNCHANGED <<N, pa, pb, used_indices, claimed, hashVars, serdeVars>>

\* The outer loop is exhausted: return true.
EqAllFound ==
    /\ pc = "eq"
    /\ examined = N
    /\ eq_result' = Some(TRUE)
    /\ pc' = "eq_returned"
    /\ UNCHANGED <<N, pa, pb, used_indices, claimed, examined, hashVars, serdeVars>>

\* get_hash(pa)
HashSelf ==
    /\ pc = "eq_returned"
    /\ hasher_a' = hash(pa, hasher_a)
    /\ pc' = "hashed_a"
    /\ UNCHANGED <<N, pa, pb, eqVars, hasher_b, serdeVars>>

\* get_hash(pb)
HashOther ==
    /\ pc = "hashed_a"
    /\ hasher_b' = hash(pb, hasher_b)
    /\ pc' = "hashed_b"
    /\ UNCHANGED <<N, pa, pb, eqVars, hasher_a, serdeVars>>

Next ==
    \/ EqElementFound
    \/ EqElementNotFound
    \/ EqAllFound
    \/ HashSelf
    \/ HashOther

Spec == Init /\ [][Next]_vars

-----------------------------------------------------------------------------
(* Serializing a tuple and deserializing what was emitted, or deserializing *)
(* a sequence that arrives from elsewhere.                                  *)

\* The sequences a deserializer may hand to visit_seq: any size hint with any
\* tokens, the hint need not be honest.
SizeHints == {None} \cup {Some(k) : k \in 0..MaxLen}
TokenSeqs == UNION {[1..l -> Tokens] : l \in 0..MaxLen}
Inputs == [size_hint : SizeHints, tokens : TokenSeqs]

\* The equality and hash state of a run that only serializes.
EqIdle ==
    /\ pb = <<>>
    /\ used_indices = <<>>
    /\ claimed = <<>>
    /\ examined = 0
    /\ eq_result = None
    /\ hasher_a = <<>>
    /\ hasher_b = <<>>

\* Either a tuple pa is about to be serialized, or no tuple exists yet (pa is
\* <<>>) and an input sequence is about to be visited.
InitSerde ==
    /\ N \in Arities
    /\ EqIdle
    /\ seq = NoSeq
    /\ outcome = Pending
    /\ \/ /\ \E x \in Tuples(N) : pa = from_array(x)
          /\ access = NoAccess
          /\ pc = "serialize"
       \/ /\ pa = <<>>
          /\ access \in Inputs
          /\ pc = "visit"

\* let mut seq = serializer.serialize_seq(Some(N))?;
SerializeSeq ==
    /\ pc = "serialize"
    /\ seq' = serialize_seq(Some(N))
    /\ pc' = "serialize_items"
    /\ UNCHANGED <<N, pa, pb, eqVars, hashVars, access, outcome>>

\* for item in self.0.iter() { seq.serialize_element(item)?; }
SerializeElement ==
    /\ pc = "serialize_items"
    /\ Len(seq.elements) < N
    /\ seq' = serialize_element(seq, into_array(pa)[Len(seq.elements) + 1])
    /\ UNCHANGED <<N, pc, pa, pb, eqVars, hashVars, access, outcome>>

\* seq.end()
SerializeEnd ==
    /\ pc = "serialize_items"
    /\ Len(seq.elements) = N
    /\ seq' = end(seq)
    /\ pc' = "serialized"
    /\ UNCHANGED <<N, pa, pb, eqVars, hashVars, access, outcome>>

\* UnorderedNTuple::deserialize(deserializer) on the emitted sequence.
Deserialize ==
    /\ pc = "serialized"
    /\ access' = deserialize_seq(seq)
    /\ pc' = "visit"
    /\ UNCHANGED <<N, pa, pb, eqVars, hashVars, seq, outcome>>

\* The deserializer calls visitor.visit_seq(access).
VisitSeq ==
    /\ pc = "visit"
    /\ outcome' = visit_seq(access, N)
    /\ pc' = "done"
    /\ UNCHANGED <<N, pa, pb, eqVars, hashVars, seq, access>>

NextSerde ==
    \/ SerializeSeq
    \/ SerializeElement
    \/ SerializeEnd
    \/ Deserialize
    \/ VisitSeq

SpecSerde == InitSerde /\ [][NextSerde]_vars

-----------------------------------------------------------------------------
(* What the properties speak of *)

\* The number of times v occurs in the sequence s.
Count(s, v) == Cardinality({k \in 1..Len(s) : s[k] = v})

\* s and t hold every value the same number of times.
SameMultiset(s, t) == \A v \in Elems : Count(s, v) = Count(t, v)

\* A tuple with its slots rearranged by p, and p being a permutation of the
\* slots 1..n.
Permuted(s, p) == [k \in 1..Len(s) |-> s[p[k]]]
IsPermutation(p, n) == \A i, j \in 1..n : p[i] = p[j] => i = j

\* t is s with its slots permuted.
IsPermutationOf(t, s) ==
    \E p \in [1..Len(s) -> 1..Len(s)] : t = Permuted(s, p) /\ IsPermutation(p, Len(s))

IsSorted(s) == \A k \in 1..(Len(s) - 1) : s[k] <= s[k + 1]

EqReturned == eq_result # None

\* C1: eq returns true exactly when the two tuples are equal as multisets,
\* every value occurring as often in pa as in pb. In particular singletons
\* compare as their members, [a,b] differs from [a,c] when b differs from c,
\* and [a,a] differs from [a,b] when a differs from b.
C1_EqIsMultisetEquality ==
    /\ EqReturned => eq_result = Some(SameMultiset(pa, pb))
    /\ pc = "eq_returned" => (eq(pa, pb) <=> SameMultiset(pa, pb))
    /\ (EqReturned /\ N = 1) => eq_result = Some(pa[1] = pb[1])
    /\ (EqReturned /\ N = 2 /\ pa[1] = pb[1] /\ pa[2] # pb[2]) => eq_result = Some(FALSE)
    /\ (EqReturned /\ N = 2 /\ pa[1] = pa[2] /\ pb[1] = pa[1] /\ pb[2] # pa[1])
          => eq_result = Some(FALSE)

C1_Witness ==
    /\ pc = "eq_returned"
    /\ pa = <<0, 0>>
    /\ pb = <<0, 1>>
    /\ eq_result = Some(FALSE)

\* C2: a tuple pa and any permutation pb of it compare equal, in both
\* argument orders: the comparison pa == pb returns true, and so does pb == pa.
C2_PermutationInvariance ==
    (pc = "eq_returned" /\ IsPermutationOf(pb, pa)) =>
        /\ eq_result = Some(TRUE)
        /\ eq(from_array(pa), from_array(pb))
        /\ eq(from_array(pb), from_array(pa))

C2_Witness ==
    /\ pc = "eq_returned"
    /\ pa = <<0, 1, 2>>
    /\ pb = <<2, 0, 1>>
    /\ eq_result = Some(TRUE)

\* C3: when pa == pb returned true, hashing pa and hashing pb feed the hasher
\* the same element sequence, the sorted copy of the storage.
C3_HashConsistency ==
    pc = "hashed_b" =>
        /\ IsSorted(hasher_a) /\ SameMultiset(hasher_a, pa) /\ Len(hasher_a) = N
        /\ IsSorted(hasher_b) /\ SameMultiset(hasher_b, pb) /\ Len(hasher_b) = N
        /\ eq_result = Some(TRUE) => hasher_a = hasher_b

C3_Witness ==
    /\ pc = "hashed_b"
    /\ eq_result = Some(TRUE)
    /\ pa = <<2, 0, 2>>
    /\ pb = <<0, 2, 2>>
    /\ hasher_a = <<0, 2, 2>>
    /\ hasher_b = <<0, 2, 2>>

\* C4: equality is reflexive, symmetric and transitive over the tuples of
\* one arity.
C4_EqIsEquivalence ==
    pc = "eq_returned" =>
        /\ eq(pa, pa)
        /\ eq(pa, pb) <=> eq(pb, pa)
        /\ eq_result = Some(TRUE) =>
              \A c \in Tuples(N) : eq(pb, from_array(c)) => eq(pa, from_array(c))

C4_Witness ==
    /\ pc = "eq_returned"
    /\ eq_result = Some(TRUE)
    /\ pa = <<1, 1, 0>>
    /\ pb = <<0, 1, 1>>
    /\ eq(pb, <<1, 0, 1>>)
    /\ eq(pa, <<1, 0, 1>>)

\* The state of the marking at every point of a run of eq.
GreedyMarking ==
    /\ eq_result = None <=> pc = "eq"
    /\ Len(claimed) = IF eq_result = Some(FALSE) THEN examined - 1 ELSE examined
    /\ Cardinality({j \in 1..N : used_indices[j]}) = Len(claimed)
    /\ \A k \in 1..Len(claimed) :
          /\ claimed[k] \in 1..N
          /\ used_indices[claimed[k]]
          /\ pb[claimed[k]] = pa[k]
          /\ \A m \in 1..Len(claimed) : claimed[m] = claimed[k] => m = k
          /\ \A j \in 1..(claimed[k] - 1) :
                pb[j] = pa[k] => \E m \in 1..(k - 1) : claimed[m] = j
    /\ \A j \in 1..N : used_indices[j] => \E k \in 1..Len(claimed) : claimed[k] = j
    /\ eq_result = Some(FALSE) =>
          /\ examined \in 1..N
          /\ \A j \in 1..N : pb[j] = pa[examined] => used_indices[j]
    /\ eq_result = Some(TRUE) => examined = N

\* C10: after k left elements are matched exactly k slots of pb are marked,
\* each claimed by one left element of equal value, each the lowest unmarked
\* equal slot at the time; eq returns false at the first left element with no
\* unmarked equal slot and takes no later element, returns true only after
\* all N are matched, and never changes pa or pb.
C10_GreedyMarkingSteps ==
    /\ []GreedyMarking
    /\ [][pa' = pa /\ pb' = pb]_vars
    /\ [][EqReturned => UNCHANGED eqVars]_vars

C10_Witness ==
    /\ pc = "eq"
    /\ pa = <<1, 1, 0>>
    /\ pb = <<1, 0, 1>>
    /\ claimed = <<1, 3>>
    /\ used_indices = <<TRUE, FALSE, TRUE>>

-----------------------------------------------------------------------------
(* Properties of the codec *)

\* The declared length of a sequence, or its observed length when it
\* declares none.
SeqLength(acc) == IF acc.size_hint = None THEN Len(acc.tokens) ELSE acc.size_hint[1]

AllDecodable(acc) == \A k \in 1..Len(acc.tokens) : acc.tokens[k] # Undecodable
Decoded(acc) == [k \in 1..Len(acc.tokens) |-> acc.tokens[k][1]]

C6_RightLengthSucceeds ==
    (/\ pc = "done"
     /\ access.size_hint \in {None, Some(N)}
     /\ Len(access.tokens) = N
     /\ AllDecodable(access))
        => (outcome.kind = "ok" /\ outcome.value = Decoded(access))

\* C7: an input whose length is not N is refused with the error "Wrong
\* number of elements", no tuple is produced and next_element is not called.
C7_LengthMismatchRejected ==
    (pc = "done" /\ SeqLength(access) # N) =>
        /\ outcome.kind = "err"
        /\ outcome.error = custom("Wrong number of elements")
        /\ outcome.value = <<>>
        /\ outcome.calls = 0

C7_Witness ==
    /\ pc = "done"
    /\ N = 2
    /\ access.size_hint = Some(3)
    /\ access.tokens = <<Token(0), Token(1), Token(2)>>
    /\ outcome = Err(custom("Wrong number of elements"), 0)

\* C8: an input that declares N elements and supplies fewer ends in an error
\* value returned to the caller: no tuple, no panic.
C8_ShortSequenceIsError ==
    (/\ pc = "done"
     /\ access.size_hint = Some(N)
     /\ Len(access.tokens) < N
     /\ AllDecodable(access))
        => outcome.kind = "err"

\* C9: when the input declares N and its k-th element (k <= N) is the first
\* that fails to decode, with error e, deserialization returns e itself,
\* has called next_element k times and produces no tuple.
C9_ElementErrorPropagated ==
    \A k \in 1..N :
        (/\ pc = "done"
         /\ access.size_hint = Some(N)
         /\ k <= Len(access.tokens)
         /\ access.tokens[k] = Undecodable
         /\ \A j \in 1..(k - 1) : access.tokens[j] # Undecodable)
            => /\ outcome.kind = "err"
               /\ outcome.error = element_error(k)
               /\ outcome.calls = k
               /\ outcome.value = <<>>

C9_Witness ==
    /\ pc = "done"
    /\ N = 3
    /\ access.size_hint = Some(3)
    /\ access.tokens = <<Token(1), Undecodable, Token(2)>>
    /\ outcome = Err(element_error(2), 2)

=============================================================================
